---- MODULE Spec2Model ----
(***************************************************************************)
(* A model of src/main.py: the grid-trading parameter calculator.          *)
(*                                                                         *)
(* calculate_grid_parameters is modelled as a sequence of steps, one per   *)
(* statement group of the function, and optimize_grid_for_period as an     *)
(* operator that folds over the candidate grid counts exactly as the loop  *)
(* of the function does.                                                   *)
(*                                                                         *)
(* Numbers.  The program computes in binary floating point.  The model     *)
(* computes in exact rational arithmetic (a rational is a normalised pair  *)
(* <<numerator, denominator>>), so rounding is abstracted away; the two    *)
(* non-finite outcomes of a division by zero (inf, nan) and the exception  *)
(* ZeroDivisionError are kept as explicit outcomes.                        *)
(*                                                                         *)
(* The price series is represented by what the function reads from it:     *)
(* its length, the population mean and standard deviation of the closes,   *)
(* and whether the standard deviation of the daily returns is zero.        *)
(***************************************************************************)
EXTENDS Integers, Sequences, FiniteSets

VARIABLES
    pc,                 \* position in main / calculate_grid_parameters
    hist_data,          \* argument: the price series (abstracted, see above)
    investment_periods, \* argument: the horizons, in the caller's order
    risk_level,         \* argument
    commission_rate,    \* argument, a rational
    fixed_fee,          \* argument, an integer
    trade_volume,       \* argument, an integer
    computed,           \* the statistics computed so far (names)
    float_type,         \* the type of the floats the statistics produce
    sharpe_ratio,       \* "unset", "finite" or "nonfinite" (inf or nan)
    lowest_price,       \* local of calculate_grid_parameters
    highest_price,      \* local of calculate_grid_parameters
    idx,                \* position of the for loop in investment_periods
    period_strategies,  \* the dict: a sequence of <<key, value>> in insertion order
    optimized,          \* history: the periods optimize_grid_for_period was called with
    error,              \* the exception that ended the run, or "none"
    result              \* the returned aggregate, or NoResult

vars == <<pc, hist_data, investment_periods, risk_level, commission_rate,
          fixed_fee, trade_volume, computed, float_type, sharpe_ratio,
          lowest_price, highest_price, idx, period_strategies, optimized,
          error, result>>

----------------------------------------------------------------------------
(* Bounds of the model *)

\* the longest price series considered
MaxLen == 21

\* the largest number of requested horizons
MaxHorizons == 2

(* Program constants *)

\* main.py line 20: if len(hist_data) < 20
MinRecords == 20

----------------------------------------------------------------------------
(* Exact rational arithmetic *)

Abs(x) == IF x < 0 THEN -x ELSE x

RECURSIVE GCD(_, _)
GCD(a, b) == IF b = 0 THEN a ELSE GCD(b, a % b)

\* the normalised rational n/d, d # 0
Rat(n, d) ==
    LET g == GCD(Abs(n), Abs(d))
        s == IF d < 0 THEN -1 ELSE 1
    IN  <<(s * n) \div g, (s * d) \div g>>

FromInt(i) == <<i, 1>>

\* sums and comparisons over the least common denominator, products with the
\* common factors cancelled first: the intermediate values stay small
RatAdd(a, b) ==
    LET g == GCD(a[2], b[2])
    IN  Rat(a[1] * (b[2] \div g) + b[1] * (a[2] \div g), (a[2] \div g) * b[2])
RatSub(a, b) == RatAdd(a, <<-b[1], b[2]>>)
RatMul(a, b) ==
    LET x == Rat(a[1], b[2])
        y == Rat(b[1], a[2])
    IN  <<x[1] * y[1], x[2] * y[2]>>
RatDiv(a, b) == RatMul(a, Rat(b[2], b[1]))
RatGT(a, b) ==
    LET g == GCD(a[2], b[2])
    IN  a[1] * (b[2] \div g) > b[1] * (a[2] \div g)
RatMin(a, b) == IF RatGT(a, b) THEN b ELSE a
Zero == FromInt(0)

\* a finite float, and the two non-finite results of a division by zero
Finite(r) == [kind |-> "finite", val |-> r]
NonFinite(k) == [kind |-> k, val |-> Zero]

----------------------------------------------------------------------------
(* Inputs *)

\* lengths of the price series: empty, short, the two sides of the limit, long
Lengths == {0, 10, MinRecords - 1, MinRecords, MaxLen}

\* what the statistics read from the series; a constant close series
\* (close_std = 0) has all daily returns equal to zero
Series ==
    {h \in [len : Lengths, close_mean : {100}, close_std : {0, 1, 10},
            returns_std_zero : BOOLEAN] :
        h.close_std = 0 => h.returns_std_zero}

\* the keys of risk_multipliers, and a risk level that is not one of them
RiskLevels == {"low", "medium", "high"}
RiskInputs == RiskLevels \cup {"extreme"}

\* horizons in days: both sides of each tier limit, zero and a negative one
Horizons == {-7, 0, 30, 31, 90, 91}

RECURSIVE SeqsUpTo(_, _)
SeqsUpTo(S, n) ==
    IF n = 0 THEN {<<>>}
    ELSE LET shorter == SeqsUpTo(S, n - 1)
         IN  shorter \cup {Append(s, x) : s \in {t \in shorter : Len(t) = n - 1}, x \in S}

HorizonLists == SeqsUpTo(Horizons, MaxHorizons)

\* commission rates: none, and the default of line 19 (0.001)
CommissionRates == {Zero, Rat(1, 1000)}

\* fixed fees per share: none, and the default of line 19
FixedFees == {0, 1}

\* shares per trade: the default of line 19, none, and a negative number
TradeVolumes == {-1, 0, 100}

\* numpy.float64 divides by zero to inf or nan; a Python float raises
FloatTypes == {"numpy", "python"}

NoResult == [kind |-> "none"]

----------------------------------------------------------------------------
(* optimize_grid_for_period *)

\* line 58: range(5, 16) / range(10, 26) / range(20, 51)
grid_range(period) ==
    IF period <= 30 THEN 5..15 ELSE IF period <= 90 THEN 10..25 ELSE 20..50

\* line 63
grid_size(lowest, highest, grid_count) ==
    RatDiv(RatSub(highest, lowest), FromInt(grid_count))

\* line 65
transaction_cost(lowest, gsize, rate, fee, volume) ==
    RatAdd(RatMul(RatMul(RatAdd(lowest, RatDiv(gsize, FromInt(2))), rate),
                  FromInt(volume)),
           FromInt(fee * volume))

\* line 66
avg_profit_per_trade(gsize, volume, cost) ==
    RatSub(RatMul(gsize, FromInt(volume)), cost)

\* line 67: min(grid_count * 2, period / 7 * 2), a true division
estimated_trades(grid_count, period) ==
    RatMin(FromInt(grid_count * 2), RatMul(Rat(period, 7), FromInt(2)))

\* lines 63-68: the profit of one candidate
total_profit(lowest, highest, rate, fee, period, volume, grid_count) ==
    LET gsize == grid_size(lowest, highest, grid_count)
        cost  == transaction_cost(lowest, gsize, rate, fee, volume)
    IN  RatMul(avg_profit_per_trade(gsize, volume, cost),
               estimated_trades(grid_count, period))

\* lines 62-72: the loop from candidate g to the last one, ascending, over
\* the total_profit of each candidate; line 70 replaces the best so far only
\* on a strict improvement
RECURSIVE SearchFrom(_, _, _, _, _)
SearchFrom(g, last, max_profit, optimal_grid_count, profits) ==
    IF g > last
    THEN [max_profit |-> max_profit, optimal_grid_count |-> optimal_grid_count]
    ELSE IF RatGT(profits[g], max_profit)
         THEN SearchFrom(g + 1, last, profits[g], g, profits)
         ELSE SearchFrom(g + 1, last, max_profit, optimal_grid_count, profits)

\* lines 57-78.  avg_amplitude is a parameter the function never reads.  The
\* division of line 77 by optimal_grid_count = 0 raises ZeroDivisionError on a
\* Python float and gives inf (nan for 0/0) on a numpy.float64.
optimize_grid_for_period(lowest, highest, rate, fee, period, volume, ftype) ==
    LET range == grid_range(period)
        first == CHOOSE g \in range : \A h \in range : g <= h
        last  == CHOOSE g \in range : \A h \in range : h <= g
        profits == [g \in range |->
                       total_profit(lowest, highest, rate, fee, period, volume, g)]
        best  == SearchFrom(first, last, Zero, 0, profits)
        width == RatSub(highest, lowest)
    IN  IF best.optimal_grid_count # 0
        THEN [raised |-> FALSE,
              grid_count |-> best.optimal_grid_count,
              estimated_profit |-> best.max_profit,
              grid_size |-> Finite(RatDiv(width, FromInt(best.optimal_grid_count)))]
        ELSE [raised |-> (ftype = "python"),
              grid_count |-> 0,
              estimated_profit |-> best.max_profit,
              grid_size |-> NonFinite(IF width = Zero THEN "nan" ELSE "inf")]

----------------------------------------------------------------------------
(* The dict period_strategies: insertion-ordered, one entry per key *)

Keys(d) == [i \in 1..Len(d) |-> d[i][1]]

HasKey(d, k) == \E i \in 1..Len(d) : d[i][1] = k

\* d[k] = v of a dict ordered by key instead of by insertion
DictSetSorted(d, k, v) ==
    LET rest   == SelectSeq(d, LAMBDA e : e[1] # k)
        before == SelectSeq(rest, LAMBDA e : e[1] < k)
        after  == SelectSeq(rest, LAMBDA e : e[1] > k)
    IN  before \o <<(<<k, v>>)>> \o after

\* line 46: d[k] = v; a new key goes last, a known key keeps its place
DictSet(d, k, v) ==
    IF HasKey(d, k)
    THEN [i \in 1..Len(d) |-> IF d[i][1] = k THEN <<k, v>> ELSE d[i]]
    ELSE Append(d, <<k, v>>)

----------------------------------------------------------------------------
(* calculate_grid_parameters *)

\* line 38
risk_multipliers(level) ==
    CASE level = "low"    -> Rat(3, 2)
      [] level = "medium" -> FromInt(2)
      [] level = "high"   -> Rat(5, 2)

\* lines 39-42: lowest_price and highest_price
price_range(mean_price, std_price, level) ==
    LET multiplier == risk_multipliers(level)
        spread     == RatMul(multiplier, FromInt(std_price))
    IN  [lowest  |-> RatSub(FromInt(mean_price), spread),
         highest |-> RatAdd(FromInt(mean_price), spread)]

\* the arguments line 46 can pass to optimize_grid_for_period
OptimizerInputs ==
    {<<price_range(h.close_mean, h.close_std, level), rate, fee, period, volume, t>> :
        h \in Series, level \in RiskLevels, rate \in CommissionRates,
        fee \in FixedFees, period \in Horizons, volume \in TradeVolumes,
        t \in FloatTypes}

\* optimize_grid_for_period is a pure function of its arguments: its value
\* for each of them
optimize_results ==
    [a \in OptimizerInputs |->
        optimize_grid_for_period(a[1].lowest, a[1].highest, a[2], a[3], a[4], a[5], a[6])]

\* line 46: the call
call_optimize(lowest, highest, rate, fee, period, volume, ftype) ==
    optimize_results[<<[lowest |-> lowest, highest |-> highest],
                       rate, fee, period, volume, ftype>>]

\* line 20, with <= for <
TooShortInclusive(h) == h.len <= MinRecords

\* line 20
TooShort(h) == h.len < MinRecords

\* lines 89-90 of main: the risk level is checked before the data is fetched
\* and before calculate_grid_parameters is called
MainRiskCheck ==
    /\ pc = "main"
    /\ IF risk_level \notin RiskLevels
       THEN /\ pc' = "main_failed"
            /\ error' = "ValueError: Invalid risk level"
       ELSE /\ pc' = "check_len"
            /\ error' = error
    /\ UNCHANGED <<hist_data, investment_periods, risk_level, commission_rate,
                   fixed_fee, trade_volume, computed, float_type, sharpe_ratio,
                   lowest_price, highest_price, idx, period_strategies,
                   optimized, result>>

\* line 19: calculate_grid_parameters called by a caller other than main
DirectCall ==
    /\ pc = "main"
    /\ pc' = "check_len"
    /\ UNCHANGED <<hist_data, investment_periods, risk_level, commission_rate,
                   fixed_fee, trade_volume, computed, float_type, sharpe_ratio,
                   lowest_price, highest_price, idx, period_strategies,
                   optimized, error, result>>

\* lines 20-21
CheckLen ==
    /\ pc = "check_len"
    /\ IF TooShort(hist_data)
       THEN /\ pc' = "failed"
            /\ error' = "ValueError: Insufficient historical data"
       ELSE /\ pc' = "price_stats"
            /\ error' = error
    /\ UNCHANGED <<hist_data, investment_periods, risk_level, commission_rate,
                   fixed_fee, trade_volume, computed, float_type, sharpe_ratio,
                   lowest_price, highest_price, idx, period_strategies,
                   optimized, result>>

\* lines 23-28: returns, mean_price, std_price, avg_amplitude
PriceStats ==
    /\ pc = "price_stats"
    /\ pc' = "sharpe"
    /\ computed' = computed \cup {"mean_price", "std_price", "avg_amplitude"}
    /\ \E t \in FloatTypes : float_type' = t
    /\ UNCHANGED <<hist_data, investment_periods, risk_level, commission_rate,
                   fixed_fee, trade_volume, sharpe_ratio, lowest_price,
                   highest_price, idx, period_strategies, optimized, error,
                   result>>

\* lines 31-32: returns.std() * np.sqrt(252) is a numpy.float64, so a zero
\* divisor gives inf or nan and no exception
Sharpe ==
    /\ pc = "sharpe"
    /\ pc' = "var"
    /\ computed' = computed \cup {"sharpe_ratio"}
    /\ sharpe_ratio' = IF hist_data.returns_std_zero THEN "nonfinite" ELSE "finite"
    /\ UNCHANGED <<hist_data, investment_periods, risk_level, commission_rate,
                   fixed_fee, trade_volume, float_type, lowest_price,
                   highest_price, idx, period_strategies, optimized, error,
                   result>>

\* line 35
VaR ==
    /\ pc = "var"
    /\ pc' = "select_range"
    /\ computed' = computed \cup {"var_95"}
    /\ UNCHANGED <<hist_data, investment_periods, risk_level, commission_rate,
                   fixed_fee, trade_volume, float_type, sharpe_ratio,
                   lowest_price, highest_price, idx, period_strategies,
                   optimized, error, result>>

\* lines 38-44: the lookup of line 39 raises KeyError for an unknown level
SelectRange ==
    /\ pc = "select_range"
    /\ IF risk_level \notin RiskLevels
       THEN /\ pc' = "failed"
            /\ error' = "KeyError"
            /\ UNCHANGED <<lowest_price, highest_price>>
       ELSE LET range == price_range(hist_data.close_mean, hist_data.close_std,
                                     risk_level)
            IN  /\ pc' = "optimize"
                /\ error' = error
                /\ lowest_price' = range.lowest
                /\ highest_price' = range.highest
    /\ UNCHANGED <<hist_data, investment_periods, risk_level, commission_rate,
                   fixed_fee, trade_volume, computed, float_type, sharpe_ratio,
                   idx, period_strategies, optimized, result>>

\* lines 45-46 with an exception of the call swallowed: the loop goes on
OptimizeNextSwallow ==
    /\ pc = "optimize"
    /\ idx <= Len(investment_periods)
    /\ \E period \in {investment_periods[idx]} :
       \E r \in {call_optimize(lowest_price, highest_price, commission_rate,
                               fixed_fee, period, trade_volume, float_type)} :
           /\ optimized' = Append(optimized, period)
           /\ pc' = pc
           /\ idx' = idx + 1
           /\ IF r.raised
              THEN /\ error' = "ZeroDivisionError"
                   /\ period_strategies' = period_strategies
              ELSE /\ error' = error
                   /\ period_strategies' =
                          DictSet(period_strategies, period,
                                  [grid_count |-> r.grid_count,
                                   estimated_profit |-> r.estimated_profit,
                                   grid_size |-> r.grid_size])
    /\ UNCHANGED <<hist_data, investment_periods, risk_level, commission_rate,
                   fixed_fee, trade_volume, computed, float_type, sharpe_ratio,
                   lowest_price, highest_price, result>>

\* lines 45-46: one iteration of the loop; an exception of the call ends the
\* function
OptimizeNext ==
    /\ pc = "optimize"
    /\ idx <= Len(investment_periods)
    /\ \E period \in {investment_periods[idx]} :
       \E r \in {call_optimize(lowest_price, highest_price, commission_rate,
                               fixed_fee, period, trade_volume, float_type)} :
           /\ optimized' = Append(optimized, period)
           /\ IF r.raised
              THEN /\ pc' = "failed"
                   /\ error' = "ZeroDivisionError"
                   /\ UNCHANGED <<idx, period_strategies>>
              ELSE /\ pc' = pc
                   /\ error' = error
                   /\ idx' = idx + 1
                   /\ period_strategies' =
                          DictSet(period_strategies, period,
                                  [grid_count |-> r.grid_count,
                                   estimated_profit |-> r.estimated_profit,
                                   grid_size |-> r.grid_size])
    /\ UNCHANGED <<hist_data, investment_periods, risk_level, commission_rate,
                   fixed_fee, trade_volume, computed, float_type, sharpe_ratio,
                   lowest_price, highest_price, result>>

\* lines 48-55
Return ==
    /\ pc = "optimize"
    /\ idx > Len(investment_periods)
    /\ pc' = "done"
    /\ result' = [kind |-> "aggregate",
                  lowest_price |-> lowest_price,
                  highest_price |-> highest_price,
                  sharpe_ratio |-> sharpe_ratio,
                  period_strategies |-> period_strategies]
    /\ UNCHANGED <<hist_data, investment_periods, risk_level, commission_rate,
                   fixed_fee, trade_volume, computed, float_type, sharpe_ratio,
                   lowest_price, highest_price, idx, period_strategies,
                   optimized, error>>

----------------------------------------------------------------------------
(* The specification *)

Init ==
    /\ pc = "main"
    /\ hist_data \in Series
    /\ investment_periods \in HorizonLists
    /\ risk_level \in RiskInputs
    /\ commission_rate \in CommissionRates
    /\ fixed_fee \in FixedFees
    /\ trade_volume \in TradeVolumes
    /\ computed = {}
    /\ float_type = "unset"
    /\ sharpe_ratio = "unset"
    /\ lowest_price = Zero
    /\ highest_price = Zero
    /\ idx = 1
    /\ period_strategies = <<>>
    /\ optimized = <<>>
    /\ error = "none"
    /\ result = NoResult

Next ==
    \/ MainRiskCheck
    \/ DirectCall
    \/ CheckLen
    \/ PriceStats
    \/ Sharpe
    \/ VaR
    \/ SelectRange
    \/ OptimizeNext
    \/ Return

Spec == Init /\ [][Next]_vars

----------------------------------------------------------------------------
(* Vocabulary of the properties *)

\* the run is inside or past calculate_grid_parameters
Called == pc \notin {"main", "main_failed"}

\* the length check of line 20 has been passed or has failed
PastCheckLen == pc \notin {"main", "main_failed", "check_len"}

Entries == 1..Len(period_strategies)
KeyAt(i) == period_strategies[i][1]
ValueAt(i) == period_strategies[i][2]

\* the total profit of candidate g for a horizon, from the run's arguments
ProfitOf(period, g) ==
    total_profit(lowest_price, highest_price, commission_rate, fixed_fee,
                 period, trade_volume, g)

\* no candidate of the horizon's tier has a total profit above zero
NoProfitable(period) ==
    \A g \in grid_range(period) : ~RatGT(ProfitOf(period, g), Zero)

\* arguments within the documented domain: a known risk level, a positive
\* trade volume, positive horizons, and daily returns that vary
WellFormed ==
    /\ risk_level \in RiskLevels
    /\ trade_volume > 0
    /\ \A i \in 1..Len(investment_periods) : investment_periods[i] > 0
    /\ ~hist_data.returns_std_zero

\* the elements of s in the order of their first occurrence
RECURSIVE FirstOccurrences(_)
FirstOccurrences(s) ==
    IF s = <<>> THEN <<>>
    ELSE LET front == FirstOccurrences(SubSeq(s, 1, Len(s) - 1))
             x     == s[Len(s)]
         IN  IF \E i \in 1..Len(front) : front[i] = x THEN front
             ELSE Append(front, x)

IsPrefix(s, t) == Len(s) <= Len(t) /\ SubSeq(t, 1, Len(s)) = s

Rank(p) ==
    CASE p = "main"         -> 0
      [] p = "check_len"    -> 1
      [] p = "price_stats"  -> 2
      [] p = "sharpe"       -> 3
      [] p = "var"          -> 4
      [] p = "select_range" -> 5
      [] p = "optimize"     -> 6
      [] OTHER              -> 7

----------------------------------------------------------------------------
(* The claims *)

\* C1: whenever (for well-formed arguments) no candidate of the horizon's
\* tier has a total profit above zero, the optimizer ends in the explicit error "no profitable grid count
\* found": no result holds grid_count = 0 and no division by zero happens.
C1_NoProfitIsExplicitError ==
    WellFormed =>
        /\ error # "ZeroDivisionError"
        /\ \A i \in Entries : ValueAt(i).grid_count # 0
        /\ (optimized # <<>> /\ NoProfitable(optimized[Len(optimized)]))
               => (pc = "failed" /\ error = "NoProfitableGridCount")

\* C2: called with a risk level that is not low, medium or high (and a series
\* long enough), calculate_grid_parameters fails with the invalid-risk-level
\* error before any statistic is computed and before any horizon is optimized.
C2_InvalidRiskFailsBeforeStatistics ==
    (Called /\ risk_level \notin RiskLevels /\ hist_data.len >= MinRecords)
        => /\ computed = {}
           /\ optimized = <<>>
           /\ pc = "failed" => error = "ValueError: Invalid risk level"

\* C3: a series of fewer than 20 records ends the function with the
\* insufficient-data error, with no statistic computed, no horizon optimized
\* and nothing returned; a series of 20 records or more never gets that error.
C3_ShortSeriesFailsFirst ==
    /\ (hist_data.len < MinRecords /\ PastCheckLen)
           => (pc = "failed" /\ error = "ValueError: Insufficient historical data")
    /\ hist_data.len < MinRecords
           => (computed = {} /\ optimized = <<>> /\ result = NoResult)
    /\ hist_data.len >= MinRecords
           => error # "ValueError: Insufficient historical data"
    /\ (hist_data.len >= MinRecords /\ PastCheckLen) => pc # "failed" \/ computed # {}

\* C3 witness: a series of 19 records has failed the length check
C3_Witness ==
    /\ hist_data.len = MinRecords - 1
    /\ pc = "failed"
    /\ error = "ValueError: Insufficient historical data"

\* C4: the candidates are 5..15 for a horizon of at most 30, 10..25 for one of
\* 31 to 90 and 20..50 for a longer one, and every grid_count returned for a
\* horizon (for well-formed arguments) is one of that horizon's candidates.
C4_GridCountInTier ==
    /\ grid_range(30) = 5..15
    /\ grid_range(31) = 10..25
    /\ grid_range(90) = 10..25
    /\ grid_range(91) = 20..50
    /\ WellFormed =>
           \A i \in Entries : ValueAt(i).grid_count \in grid_range(KeyAt(i))

\* C5: for well-formed arguments the grid_count returned for a horizon is the
\* candidate of the greatest total profit, and the smallest one among those of
\* that profit.
C5_SmallestBestCandidate ==
    WellFormed => \A i \in Entries :
        LET g == ValueAt(i).grid_count
        IN  /\ g \in grid_range(KeyAt(i))
            /\ \A h \in grid_range(KeyAt(i)) :
                   /\ ~RatGT(ProfitOf(KeyAt(i), h), ProfitOf(KeyAt(i), g))
                   /\ ProfitOf(KeyAt(i), h) = ProfitOf(KeyAt(i), g) => g <= h

\* C6: with daily returns of standard deviation zero the function fails with
\* the undefined-Sharpe-ratio error: the ratio is never inf or nan and no
\* horizon is optimized.
C6_ZeroVolatilityFails ==
    /\ sharpe_ratio # "nonfinite"
    /\ (hist_data.returns_std_zero /\ "sharpe_ratio" \in computed)
           => (pc = "failed" /\ error = "UndefinedSharpeRatio")
    /\ hist_data.returns_std_zero => optimized = <<>>

\* C7: with a trade volume of zero or less, or a horizon of zero or less (and
\* daily returns that vary), the function returns nothing, and no result with a grid count is stored for
\* such a horizon or with such a trade volume.
C7_NonPositiveInputsRejected ==
    ~hist_data.returns_std_zero =>
        /\ \A i \in Entries :
               ValueAt(i).grid_count # 0 => (KeyAt(i) > 0 /\ trade_volume > 0)
        /\ (trade_volume <= 0 \/ \E i \in 1..Len(investment_periods) :
                                     investment_periods[i] <= 0)
               => pc # "done"

\* C8: every step moves the pipeline forward (the only repetition is the loop
\* going to its next horizon), the horizons are optimized in the order given,
\* nothing runs after a failure, a failure returns nothing, and a return
\* holds a result for every requested horizon.
C8_Step ==
    /\ pc \notin {"done", "failed", "main_failed"}
    /\ \/ Rank(pc') > Rank(pc)
       \/ pc = "optimize" /\ pc' = "optimize" /\ idx' = idx + 1
    /\ computed \subseteq computed'
    /\ IsPrefix(optimized, optimized')
    /\ IsPrefix(optimized', investment_periods)
    /\ error # "none" => pc' \in {"failed", "main_failed"}
    /\ pc' \in {"failed", "main_failed"}
           => (error' # "none" /\ result' = NoResult)
    /\ pc' = "done"
           => /\ error' = "none"
              /\ result'.kind = "aggregate"
              /\ optimized' = investment_periods
              /\ \A i \in 1..Len(investment_periods) :
                     HasKey(result'.period_strategies, investment_periods[i])

C8_FailFastPipeline == [][C8_Step]_vars

\* C8 witness: the first of two horizons failed and the second one was never
\* optimized
C8_Witness ==
    /\ pc = "failed"
    /\ error = "ZeroDivisionError"
    /\ Len(optimized) = 1
    /\ Len(investment_periods) = 2
    /\ period_strategies = <<>>

C10_ResultFollowsFormula ==
    /\ grid_size(FromInt(80), FromInt(120), 10) = FromInt(4)
    /\ transaction_cost(FromInt(80), FromInt(4), Rat(1, 1000), 1, 100) = Rat(1082, 10)
    /\ avg_profit_per_trade(FromInt(4), 100, Rat(1082, 10)) = Rat(2918, 10)
    /\ WellFormed => \A i \in Entries :
           LET g == ValueAt(i).grid_count
           IN  /\ g # 0
               /\ ValueAt(i).grid_size =
                      Finite(RatDiv(RatSub(highest_price, lowest_price), FromInt(g)))
               /\ ValueAt(i).estimated_profit = ProfitOf(KeyAt(i), g)

====
